---- MODULE Spec2Model ----
(***************************************************************************)
(* A model of generalizedtrees' Trepan explainer                           *)
(* (src/generalizedtrees/explainers/trepan.py).                            *)
(*                                                                         *)
(* Spec      the growth loop of Trepan.fit, with use_m_of_n either way,    *)
(*           over a one-column training matrix (self._d = 1) whose feature *)
(*           is continuous or discrete; the rows are taken in ascending    *)
(*           order, which fixes nothing but the numbering of the rows, and *)
(*           the oracle labels the value 0 as class 0, which fixes nothing *)
(*           but the names of the two classes.                             *)
(* SpecQueue the same loop for a training matrix of QueueRows rows, with   *)
(*           min_sample above that and one more feature value, where two   *)
(*           nodes get queued together.                                    *)
(* SpecBeam  one call of Trepan.construct_m_of_n_split with a gate         *)
(*           tests_sig_diff that answers True or False at each call;       *)
(*           SpecBeamFair adds that the method keeps running.              *)
(* SpecEstimate  one call of predict.estimate on a built tree, the calls   *)
(*           of _estimate_subtree taken one at a time.                     *)
(* SpecPick  one call of TrepanNode.pick_branch.                           *)
(* SpecCmp   one comparison of two TrepanNodes.                            *)
(* SpecDraw  one call of Trepan.draw_instance, attempt by attempt.         *)
(* SpecDist  one call of Trepan.same_distribution over several features.   *)
(*                                                                         *)
(* Numbers: a real in [0, 1] (fidelity, coverage) or a score is a pair     *)
(* <<num, den>> with den > 0, compared by cross-multiplication.  A         *)
(* constraint's value is stored doubled (value2), so that the midpoint     *)
(* threshold between two integer feature values stays an integer.          *)
(***************************************************************************)
EXTENDS Integers, Sequences, FiniteSets, TLC

\* ------------------------------------------------------------------ bounds
MaxN == 4            \* rows of the training matrix: 1..MaxN
MaxVal == 2          \* feature values: 0..MaxVal
MaxMinSample == 2    \* min_sample: 0..MaxMinSample
MaxTreeSize == 4     \* max_tree_size: 1..MaxTreeSize
MaxChildren == 2     \* children of the node pick_branch is called on
MaxPath == 1         \* constraints handed to draw_instance: 0..MaxPath
MaxAttempts == 3     \* max_attempts of draw_instance: 0..MaxAttempts
MaxFeatures == 2     \* features same_distribution loops over: 1..MaxFeatures
MaxBeamRows == 2     \* instances construct_m_of_n_split is given: 1..MaxBeamRows
MaxBeamVal == 1      \* their feature values: 0..MaxBeamVal
MaxBeamWidth == 2    \* beam_width: 0..MaxBeamWidth
MaxLeaves == 3       \* leaves of the tree estimate is called on: 1..MaxLeaves
MaxEstRows == 2      \* rows of the matrix estimate is called on: 0..MaxEstRows
MaxEstVal == 1       \* their feature values: 0..MaxEstVal
QueueRows == 2       \* SpecQueue: rows of the training matrix
QueueMaxVal == 3     \* SpecQueue: feature values 0..QueueMaxVal
QueueMinSample == 3  \* SpecQueue: min_sample

Val == 0..MaxVal
Label == {0, 1}

\* dist_test_alpha = 0.05, in thousandths (Trepan.__init__)
DistTestAlpha == 50
\* the p-values a statistical test can report, in thousandths; NaN is what
\* chisquare reports when its degrees of freedom are not positive
NaN == -1
PVals == {NaN, 10, 50, 1000}

\* ---------------------------------------------------------------- numbers
Frac(n, d) == <<n, d>>
FracLt(a, b) == a[1] * b[2] < b[1] * a[2]
FracLeq(a, b) == a[1] * b[2] <= b[1] * a[2]
FracEq(a, b) == a[1] * b[2] = b[1] * a[2]
FracMul(a, b) == <<a[1] * b[1], a[2] * b[2]>>
FracNeg(a) == <<0 - a[1], a[2]>>

RECURSIVE SetToSeq(_)
\* the elements of a set of integers in ascending order
SetToSeq(S) ==
    IF S = {} THEN <<>>
    ELSE LET m == CHOOSE x \in S : \A y \in S : x <= y
         IN <<m>> \o SetToSeq(S \ {m})

RECURSIVE CountEq(_, _)
\* the number of entries of sequence s equal to v
CountEq(s, v) ==
    IF s = <<>> THEN 0
    ELSE (IF Head(s) = v THEN 1 ELSE 0) + CountEq(Tail(s), v)

RECURSIVE SelectIdx(_, _, _)
\* the entries t[i] of t at the positions i where keep[i] holds
SelectIdx(t, keep, i) ==
    IF i > Len(t) THEN <<>>
    ELSE (IF keep[i] THEN <<t[i]>> ELSE <<>>) \o SelectIdx(t, keep, i + 1)

\* ------------------------------------------------------------ constraints
\* generalizedtrees.constraints: GT, LEQ, EQ, NEQ over the single feature
Constraint(kind, value2) == [kind |-> kind, value2 |-> value2]

Test(c, x) ==
    CASE c.kind = "GT" -> 2 * x > c.value2
      [] c.kind = "LEQ" -> 2 * x <= c.value2
      [] c.kind = "EQ" -> 2 * x = c.value2
      [] c.kind = "NEQ" -> 2 * x # c.value2

\* all(c.test(x) for c in constraints)
TestAll(constraints, x) ==
    \A i \in 1..Len(constraints) : Test(constraints[i], x)

\* ----------------------------------------------------------------- scores
\* generalizedtrees.scores.entropy of k labels of one class among n, in bits
\* scaled by 10^4 (exact for the 0 and 1 entries, rounded otherwise)
EntropyTab(k, n) ==
    LET m == IF 2 * k > n THEN n - k ELSE k
    IN CASE m = 0 -> 0
         [] 2 * m = n -> 10000
         [] n = 3 /\ m = 1 -> 9183
         [] n = 4 /\ m = 1 -> 8113
         [] n = 5 /\ m = 1 -> 7219
         [] n = 5 /\ m = 2 -> 9710
         [] n = 6 /\ m = 1 -> 6500
         [] n = 6 /\ m = 2 -> 9183
         [] n = 7 /\ m = 1 -> 5917
         [] n = 7 /\ m = 2 -> 8631
         [] n = 7 /\ m = 3 -> 9852

\* entropy(targets) for a sequence of labels
entropy(targets) == EntropyTab(CountEq(targets, 1), Len(targets))

\* ------------------------------------------------------------- candidates
\* the labels of the rows of data whose value is in S
LabelsAt(data, targets, S) ==
    {targets[i] : i \in {j \in 1..Len(data) : data[j] \in S}}

RECURSIVE Thresholds(_, _, _)
\* over the sorted distinct values vs: one {LEQ, GT} pair at the midpoint of
\* each pair of adjacent values between which the class changes
Thresholds(vs, data, targets) ==
    IF Len(vs) < 2 THEN <<>>
    ELSE LET lo == vs[1]
             hi == vs[2]
             here == IF Cardinality(LabelsAt(data, targets, {lo, hi})) > 1
                     THEN << <<Constraint("LEQ", lo + hi),
                               Constraint("GT", lo + hi)>> >>
                     ELSE <<>>
         IN here \o Thresholds(Tail(vs), data, targets)

\* splitting.fayyad_thresholds(data, targets, j)
fayyad_thresholds(data, targets) ==
    Thresholds(SetToSeq({data[i] : i \in 1..Len(data)}), data, targets)

\* splitting.one_vs_all(data, j): an {EQ, NEQ} pair per observed value
one_vs_all(data) ==
    LET vs == SetToSeq({data[i] : i \in 1..Len(data)})
    IN [k \in 1..Len(vs) |->
          <<Constraint("EQ", 2 * vs[k]), Constraint("NEQ", 2 * vs[k])>>]

\* Trepan.make_split_candidates
make_split_candidates(fs, data, targets) ==
    IF fs = "CONTINUOUS" THEN fayyad_thresholds(data, targets)
    ELSE one_vs_all(data)

\* targets[np.apply_along_axis(c.test, 1, data)]
TargetsWhere(c, data, targets) ==
    SelectIdx(targets, [i \in 1..Len(data) |-> Test(c, data[i])], 1)

RECURSIVE SumEntropy(_, _, _)
SumEntropy(split, data, targets) ==
    IF split = <<>> THEN 0
    ELSE entropy(TargetsWhere(Head(split), data, targets))
         + SumEntropy(Tail(split), data, targets)

\* Trepan.split_score: the children's entropies are summed unweighted
split_score(split, data, targets) ==
    entropy(targets) - SumEntropy(split, data, targets)

\* Improves that lets an equal score through: the last of the best wins
Improves_OrEqual(new_score, best_split_score) == new_score >= best_split_score

\* line 225: if new_score > best_split_score
Improves(new_score, best_split_score) == new_score > best_split_score

RECURSIVE BestSplit(_, _, _, _, _)
\* the for loop of construct_split: a candidate replaces the best so far only
\* when its score is strictly higher
BestSplit(cands, best, bestScore, data, targets) ==
    IF cands = <<>> THEN best
    ELSE LET new_score == split_score(Head(cands), data, targets)
         IN IF Improves(new_score, bestScore)
            THEN BestSplit(Tail(cands), Head(cands), new_score, data, targets)
            ELSE BestSplit(Tail(cands), best, bestScore, data, targets)

\* construct_split that settles for the first candidate, whatever its score
construct_split_FirstCandidate(fs, data, targets) ==
    LET cands == make_split_candidates(fs, data, targets)
    IN IF cands = <<>> THEN <<>> ELSE cands[1]

\* Trepan.construct_split, lines 220-227 and 238: the best primitive split
construct_split(fs, data, targets) ==
    BestSplit(make_split_candidates(fs, data, targets), <<>>, 0, data, targets)

\* ------------------------------------------------------- m-of-n splits
\* generalizedtrees.constraints.MofN: at least m of the tests hold.  A test
\* is named by the position in split_candidates of the candidate whose first
\* constraint it is; the split made of it is the test and its negation.
MofN(m, tests) == [m |-> m, tests |-> tests]

\* the split the beam is seeded with: the best primitive split as a 1-of-1
\* test, the empty split () as the test with no constraint
Seed(best_split, split_candidates) ==
    IF best_split = <<>> THEN MofN(0, {})
    ELSE MofN(1, {CHOOSE k \in 1..Len(split_candidates) :
                     /\ split_candidates[k] = best_split
                     /\ \A j \in 1..(k - 1) : split_candidates[j] # best_split})

\* MofN.neighboring_tests(split, split_candidates): the m-of-n tests one move
\* away, the moves being add a test of the pool, remove a test, m + 1 and
\* m - 1; a test has 1 <= m <= n
neighboring_tests(split, split_candidates) ==
    LET pool == 1..Len(split_candidates)
        add == SetToSeq(pool \ split.tests)
        rem == SetToSeq(split.tests)
        all == [i \in 1..Len(add) |-> MofN(split.m, split.tests \cup {add[i]})]
               \o [i \in 1..Len(rem) |-> MofN(split.m, split.tests \ {rem[i]})]
               \o <<MofN(split.m + 1, split.tests), MofN(split.m - 1, split.tests)>>
    IN SelectIdx(all, [i \in 1..Len(all) |->
                          all[i].m >= 1 /\ all[i].m <= Cardinality(all[i].tests)], 1)

\* MofN.test(x): at least m of the tests hold on x
MofNTest(split, split_candidates, x) ==
    Cardinality({k \in split.tests : Test(split_candidates[k][1], x)}) >= split.m

\* Trepan.split_score of the split made of an m-of-n test and its negation
MofNScore(split, split_candidates, rows, labels) ==
    LET holds == [i \in 1..Len(rows) |-> MofNTest(split, split_candidates, rows[i])]
        fails == [i \in 1..Len(rows) |-> ~holds[i]]
    IN entropy(labels) - (entropy(SelectIdx(labels, holds, 1))
                          + entropy(SelectIdx(labels, fails, 1)))

\* Trepan.tests_sig_diff: raise NotImplementedError
tests_sig_diff(split, new_split) == "NotImplementedError"

\* FirstGate with the neighbour passed over: no call of the gate is made
FirstGate_Skipped(best_split, split_candidates) == ""

\* lines 278-280 in the first pass over the beam [(best_split_score,
\* best_split)]: what the first call of the gate does, "" if the seed has no
\* neighbour and no call is made
FirstGate(best_split, split_candidates) ==
    LET seed == Seed(best_split, split_candidates)
        nbrs == neighboring_tests(seed, split_candidates)
    IN IF nbrs = <<>> THEN "" ELSE tests_sig_diff(seed, Head(nbrs))

\* Trepan.construct_split as fit calls it: the split returned, or the
\* exception that leaves it.  With use_m_of_n the beam search runs on the
\* best primitive split; when its seed has no neighbour the beam never
\* changes and max(beam)[1] is the seed's split.
SplitOutcome(m_of_n, fs, rows, labels) ==
    LET best_split == construct_split(fs, rows, labels)
        gate == IF m_of_n
                THEN FirstGate(best_split, make_split_candidates(fs, rows, labels))
                ELSE ""
    IN IF gate = "" THEN [split |-> best_split, err |-> ""]
       ELSE [split |-> <<>>, err |-> gate]

\* -------------------------------------------------- distribution tester
\* One feature's statistical test as Trepan.same_distribution sees it: the
\* feature's spec, k = the number of distinct values in the union of the two
\* samples, the p-value the library reports (chisquare or ks_2samp), and
\* whether the library rejects the samples with an exception.
FeatureTest(spec, k, p, raises) ==
    [spec |-> spec, k |-> k, p |-> p, raises |-> raises]

\* p < min_p on floats: a comparison with NaN is False
PLess(p, min_p) == p # NaN /\ p < min_p

RECURSIVE DistLoop(_, _, _)
\* the for loop of same_distribution over the features: <<n_tests, min_p,
\* raised>> after the features in tests
DistLoop(tests, n_tests, min_p) ==
    IF tests = <<>> THEN <<n_tests, min_p, FALSE>>
    ELSE LET t == Head(tests)
         IN IF t.spec = "DISCRETE" /\ t.k <= 1
            THEN DistLoop(Tail(tests), n_tests, min_p)
            ELSE IF t.raises THEN <<n_tests, min_p, TRUE>>
            ELSE DistLoop(Tail(tests), n_tests + 1,
                          IF PLess(t.p, min_p) THEN t.p ELSE min_p)

\* the return statement of same_distribution: min_p < alpha / n_tests
DistReturn(n_tests, min_p) ==
    IF n_tests = 0 THEN "ZeroDivisionError"
    ELSE IF min_p * n_tests < DistTestAlpha THEN "True" ELSE "False"

\* Trepan.same_distribution: "True", "False", or the exception raised
same_distribution(tests) ==
    LET r == DistLoop(tests, 0, 1000)
    IN [n_tests |-> r[1], min_p |-> r[2],
        result |-> IF r[3] THEN "ValueError" ELSE DistReturn(r[1], r[2])]

\* -------------------------------------------------------------- generator
\* Trepan.Generator: src identifies the object (the node it was fit at)
Generator(src, training_idx) == [src |-> src, training_idx |-> training_idx]

\* the values generator.generate() can return: any of the feature's values
\* for a continuous feature (a normal around a training value), an observed
\* value for a discrete one; none (generate raises) when it was fit to no rows
Support(fs, data, gen, values) ==
    IF gen.training_idx = {} THEN {}
    ELSE IF fs = "CONTINUOUS" THEN values
    ELSE {data[i] : i \in gen.training_idx}

\* draw_instance that returns what generate() gives, untested
draw_instance_Unchecked(fs, data, constraints, gen, values) ==
    LET sup == Support(fs, data, gen, values)
    IN [instances |-> sup,
        raises |-> IF sup = {} THEN {"ValueError"} ELSE {}]

\* Trepan.draw_instance seen from its caller: an accepted instance, or the
\* exception: RuntimeError after max_attempts rejected instances
draw_instance(fs, data, constraints, gen, values) ==
    LET sup == Support(fs, data, gen, values)
        acc == {v \in sup : TestAll(constraints, v)}
    IN [instances |-> acc,
        raises |-> IF sup = {} THEN {"ValueError"}
                   ELSE IF acc # sup THEN {"RuntimeError"} ELSE {}]

\* NoSample with the test off by one: a top-up of one row is skipped
NoSample_OffByOne(n) == n < 2

\* line 414 of draw_sample: nothing is drawn
NoSample(n) == n < 1

\* OracleBatches with the oracle called inside the loop: n calls of one row
OracleBatches_PerInstance(n) == [i \in 1..n |-> 1]

\* line 419, targets = self.oracle(data): the row counts of the oracle calls
\* draw_sample makes for n instances, one call on all n rows together
OracleBatches(n) == <<n>>

\* Trepan.draw_sample(constraints, n, generator): the possible outcomes.  The
\* n instances are taken in ascending order: what is computed from them
\* depends on their order only through the tie-break of mode at a node that
\* has no training rows.
draw_sample(fs, data, constraints, n, gen, values) ==
    IF NoSample(n)
    THEN {[err |-> "", gen_data |-> <<>>, gen_called |-> FALSE, oracle_calls |-> 0,
           batches |-> <<>>]}
    ELSE LET d == draw_instance(fs, data, constraints, gen, values)
         IN {[err |-> "", gen_data |-> g, gen_called |-> TRUE,
              oracle_calls |-> Len(OracleBatches(n)),
              batches |-> OracleBatches(n)] :
                 g \in {h \in [1..n -> d.instances] :
                            \A i \in 1..(n - 1) : h[i] <= h[i + 1]}}
            \cup {[err |-> e, gen_data |-> <<>>, gen_called |-> TRUE, oracle_calls |-> 0,
                    batches |-> <<>>] :
                 e \in d.raises}

\* statistics.mode of a sequence of labels: the most common, the first
\* encountered on a tie
mode(s) ==
    LET c0 == CountEq(s, 0)
        c1 == CountEq(s, 1)
    IN IF c0 > c1 THEN 0 ELSE IF c1 > c0 THEN 1 ELSE s[1]

\* np.mean(s == prediction)
MeanEq(s, prediction) == Frac(CountEq(s, prediction), Len(s))

\* ------------------------------------------------------------------ heapq
\* The heap is a list of node ids, position 1 its top; sc maps an id to the
\* node's score, and nodes are compared by TrepanNode.__lt__ on scores that
\* are set.
RECURSIVE SiftDown(_, _, _, _)
\* heapq._siftdown: item moves from pos towards the top while it is less
\* than its parent
SiftDown(h, item, pos, sc) ==
    IF pos > 1 /\ FracLt(sc[item], sc[h[pos \div 2]])
    THEN SiftDown([h EXCEPT ![pos] = h[pos \div 2]], item, pos \div 2, sc)
    ELSE [h EXCEPT ![pos] = item]

RECURSIVE SiftUpLoop(_, _, _)
\* the loop of heapq._siftup: the smaller child moves up until a leaf is
\* reached; <<the list, the leaf's position>>
SiftUpLoop(h, pos, sc) ==
    IF 2 * pos > Len(h) THEN <<h, pos>>
    ELSE LET childpos == 2 * pos
             rightpos == childpos + 1
             c == IF rightpos <= Len(h) /\ ~FracLt(sc[h[childpos]], sc[h[rightpos]])
                  THEN rightpos ELSE childpos
         IN SiftUpLoop([h EXCEPT ![pos] = h[c]], c, sc)

\* heappop that takes the item pushed last, with no regard to the scores
heappop_Last(h, sc) ==
    [item |-> h[Len(h)], heap |-> SubSeq(h, 1, Len(h) - 1)]

\* heappop that leaves the item in the list
heappop_Peek(h, sc) == [item |-> h[1], heap |-> h]

\* heapq.heappop(heap): the item returned and the list left
heappop(h, sc) ==
    LET lastelt == h[Len(h)]
        rest == SubSeq(h, 1, Len(h) - 1)
    IN IF rest = <<>> THEN [item |-> lastelt, heap |-> rest]
       ELSE LET r == SiftUpLoop([rest EXCEPT ![1] = lastelt], 1, sc)
            IN [item |-> h[1], heap |-> SiftDown(r[1], lastelt, r[2], sc)]

\* heappush that puts the item in the list twice
heappush_Twice(h, item, sc) == Append(Append(h, item), item)

\* heapq.heappush(heap, item)
heappush(h, item, sc) == SiftDown(Append(h, item), item, Len(h) + 1, sc)

\* ----------------------------------------- state of the single operations
VARIABLES
    pick_children,  \* pick_branch: the local_constraints of self's children
    pick_vector,    \* pick_branch: data_vector
    pick_result,    \* pick_branch: "", "returned" or the exception raised
    pick_index,     \* pick_branch: the index returned, -1 if none
    pick_logged,    \* pick_branch: the records handed to logger.error
    cmp_self,       \* a comparison: self.score
    cmp_other,      \* a comparison: other.score
    cmp_op,         \* a comparison: "==", "<", "<=", ">" or ">="
    cmp_result,     \* a comparison: "", "True", "False" or the exception
    draw_constraints,  \* draw_instance: constraints
    draw_max_attempts, \* draw_instance: max_attempts
    draw_generated, \* draw_instance: the instances generate() returned so far
    draw_result,    \* draw_instance: "", "returned" or "RuntimeError"
    dist_tests,     \* same_distribution: what each feature's test reports
    dist_result     \* same_distribution: its outcome, result "" before the call

VARIABLES
    beam_spec,      \* construct_m_of_n_split: self.feature_spec[0]
    beam_rows,      \* construct_m_of_n_split: data
    beam_labels,    \* construct_m_of_n_split: targets
    beam_width,     \* construct_m_of_n_split: self.beam_width
    beam_candidates,\* construct_m_of_n_split: split_candidates
    beam,           \* the list beam of (score, split) pairs
    beam_changed,   \* the flag beam_changed
    beam_pos,       \* the position the iterator of "for _, split in beam" is at
    beam_nbrs,      \* the neighbours of the current split not yet considered
    beam_pc,        \* "while", "for", "inner" or "returned"
    beam_result,    \* <<the split returned>>, <<>> before the return
    beam_start,     \* the beam when the current pass of the while loop began
    beam_replaced   \* whether an entry of the beam has been replaced

beamVars == <<beam_spec, beam_rows, beam_labels, beam_width, beam_candidates,
              beam, beam_changed, beam_pos, beam_nbrs, beam_pc, beam_result,
              beam_start, beam_replaced>>

VARIABLES
    est_tree,       \* estimate: tree.node('root'), the subtrees nested in it
    data_matrix,    \* estimate: data_matrix, one column
    est_stack,      \* the calls of _estimate_subtree not yet run, the next
                    \* one first: [node, idx]
    result_matrix,  \* result_matrix: per row the estimate written last and
                    \* the number of times the row was written
    est_pc          \* "running" or "returned"

estVars == <<est_tree, data_matrix, est_stack, result_matrix, est_pc>>

pickVars == <<pick_children, pick_vector, pick_result, pick_index, pick_logged>>
cmpVars == <<cmp_self, cmp_other, cmp_op, cmp_result>>
drawVars == <<draw_constraints, draw_max_attempts, draw_generated, draw_result>>
distVars == <<dist_tests, dist_result>>

\* an operation that is not the one under study: never called
PickIdle ==
    /\ pick_children = <<>> /\ pick_vector = 0
    /\ pick_result = "" /\ pick_index = 0 - 1 /\ pick_logged = <<>>
CmpIdle ==
    cmp_self = <<0, 0>> /\ cmp_other = <<0, 0>> /\ cmp_op = "" /\ cmp_result = ""
DrawIdle ==
    /\ draw_constraints = <<>> /\ draw_max_attempts = 0
    /\ draw_generated = <<>> /\ draw_result = ""
DistIdle ==
    /\ dist_tests = <<>>
    /\ dist_result = [n_tests |-> 0, min_p |-> 1000, result |-> ""]
EstIdle ==
    /\ est_tree = <<>> /\ data_matrix = <<>> /\ est_stack = <<>>
    /\ result_matrix = <<>> /\ est_pc = "idle"
BeamIdle ==
    /\ beam_spec = "" /\ beam_rows = <<>> /\ beam_labels = <<>> /\ beam_width = 0
    /\ beam_candidates = <<>>
    /\ beam = <<>> /\ beam_changed = FALSE /\ beam_pos = 0 /\ beam_nbrs = <<>>
    /\ beam_pc = "idle" /\ beam_result = <<>> /\ beam_start = <<>>
    /\ beam_replaced = FALSE

\* ------------------------------------------------------------- Trepan.fit
VARIABLES
    data,           \* self.data: the training column, a sequence of values
    feature_spec,   \* self.feature_spec[0]: "CONTINUOUS" or "DISCRETE"
    oracle,         \* self.oracle, a function of one instance
    min_sample,     \* self.min_sample
    max_tree_size,  \* self.max_tree_size
    use_m_of_n,     \* self.use_m_of_n
    nodes,          \* self.tree: the nodes in creation order, the root first
    heap,           \* heap: the list heapq keeps, of the ids of the queued nodes
    pc,             \* "start", "loop", "split", "done" or "error"
    node,           \* the node popped by the current iteration
    pending,        \* the constraints of its split not yet turned into children
    err,            \* the exception that ended fit, "" if none
    last_test,      \* the last same_distribution call made by fit: the child
                    \* it was made for, its arguments and what it found
    oracle_log      \* the row count of every call of self.oracle, in order

fitVars == <<data, feature_spec, oracle, min_sample, max_tree_size,
             use_m_of_n, nodes, heap, pc, node, pending, err, last_test,
             oracle_log>>

\* TrepanNode.__init__: every field None; assigned names the fields set since
TrepanNode(parent) ==
    [parent |-> parent,
     local_constraint |-> Constraint("None", 0),
     constraints |-> <<>>,
     training_idx |-> {},
     generator |-> Generator(0, {}),
     gen_data |-> <<>>,
     gen_targets |-> <<>>,
     prediction |-> 0,
     fidelity |-> Frac(0, 1),
     coverage |-> Frac(0, 1),
     score |-> Frac(0, 1),
     assigned |-> {},
     gen_called |-> FALSE,
     oracle_calls |-> 0]

\* tree.size
size == Len(nodes)

\* targets = self.oracle(self.data)
targets == [i \in 1..Len(data) |-> oracle[data[i]]]

\* self.oracle(gen_data)
OracleOf(g) == [i \in 1..Len(g) |-> oracle[g[i]]]

\* data[idx] and targets[idx] for an index list kept in ascending order
Rows(idx) == LET s == SetToSeq(idx) IN [i \in 1..Len(s) |-> data[s[i]]]
TargetsAt(idx) == LET s == SetToSeq(idx) IN [i \in 1..Len(s) |-> targets[s[i]]]

\* Trepan.new_generator(training_idx), called for node id
new_generator(id, training_idx) == Generator(id, training_idx)

\* the root after lines 322-345, for one outcome s of draw_sample
RootNode(s) ==
    LET all == targets \o OracleOf(s.gen_data)
        prediction == mode(all)
    IN [TrepanNode(0) EXCEPT
          !.training_idx = 1..Len(data),
          !.generator = new_generator(1, 1..Len(data)),
          !.gen_data = s.gen_data,
          !.gen_targets = OracleOf(s.gen_data),
          !.gen_called = s.gen_called,
          !.oracle_calls = s.oracle_calls,
          !.prediction = prediction,
          !.fidelity = MeanEq(all, prediction),
          !.coverage = Frac(1, 1),
          !.score = Frac(0, 1),
          !.constraints = <<>>,
          !.assigned = {"training_idx", "generator", "gen_data", "prediction",
                        "fidelity", "coverage", "score", "constraints"}]

\* the state before fit is called, the number of rows, the feature's values,
\* min_sample, max_tree_size and use_m_of_n being drawn from the given sets
InitFit(rows, values, samples, sizes, m_of_n) ==
    /\ data \in UNION {[1..n -> values] : n \in rows}
    /\ \A i \in 1..(Len(data) - 1) : data[i] <= data[i + 1]
    /\ feature_spec \in {"CONTINUOUS", "DISCRETE"}
    /\ oracle \in {f \in [values -> Label] : f[0] = 0}
    /\ min_sample \in samples
    /\ max_tree_size \in sizes
    /\ use_m_of_n \in m_of_n
    /\ nodes = <<>>
    /\ heap = <<>>
    /\ pc = "start"
    /\ node = 0
    /\ pending = <<>>
    /\ err = ""
    /\ last_test = [child |-> 0, n_tests |-> 0, min_p |-> 1000, result |-> "",
                    idx_1 |-> {}, idx_2 |-> {}]
    /\ oracle_log = <<>>
    /\ PickIdle /\ CmpIdle /\ DrawIdle /\ DistIdle /\ BeamIdle /\ EstIdle

Init == InitFit(1..MaxN, Val, 0..MaxMinSample, 1..MaxTreeSize, BOOLEAN)

\* SpecQueue: QueueRows training rows, min_sample = QueueMinSample, the
\* largest node budget, no m-of-n refinement
InitQueue ==
    InitFit({QueueRows}, 0..QueueMaxVal, {QueueMinSample}, {MaxTreeSize}, {FALSE})

\* the feature's values
Values == DOMAIN oracle

\* fit, lines 304-348: the root is built and put in the heap
FitRoot ==
    /\ pc = "start"
    /\ \E s \in draw_sample(feature_spec, data, <<>>, min_sample - Len(data),
                            new_generator(1, 1..Len(data)), Values) :
          /\ s.err = ""
          /\ nodes' = <<RootNode(s)>>
          /\ oracle_log' = <<Len(data)>> \o s.batches
    /\ heap' = <<1>>
    /\ pc' = "loop"
    /\ UNCHANGED <<data, feature_spec, oracle, min_sample, max_tree_size,
                   use_m_of_n, node,
                   pending, err, last_test, pickVars, cmpVars, drawVars, distVars,
                   beamVars, estVars>>

\* ChildTrainingIdx without the filter: every child gets all the rows
ChildTrainingIdx_Unfiltered(parent_idx, constraint) == parent_idx

\* line 367: the training rows of the parent that pass the constraint
ChildTrainingIdx(parent_idx, constraint) ==
    {i \in parent_idx : Test(constraint, data[i])}

\* ChildConstraints that forgets the path: the child's own constraint alone
ChildConstraints_LocalOnly(parent_constraints, constraint) == <<constraint>>

\* line 364: node.constraints + (constraint,)
ChildConstraints(parent_constraints, constraint) ==
    Append(parent_constraints, constraint)

\* lines 361-367: a child with its constraints and training rows set
ChildStart(p, constraint) ==
    [TrepanNode(p) EXCEPT
       !.local_constraint = constraint,
       !.constraints = ChildConstraints(nodes[p].constraints, constraint),
       !.training_idx = ChildTrainingIdx(nodes[p].training_idx, constraint),
       !.assigned = {"local_constraint", "constraints", "training_idx"}]

\* DistTestArgs with the parent's own rows in the place of its generator's
DistTestArgs_ParentIdx(child_idx, parent) == <<child_idx, parent.training_idx>>

\* line 370: the arguments idx_1, idx_2 of the call of same_distribution
DistTestArgs(child_idx, parent) == <<child_idx, parent.generator.training_idx>>

\* what the library calls of same_distribution(idx_1, idx_2) can report for
\* the one feature: for two samples with the same values no difference
\* (p = 1, or NaN from chisquare), otherwise any p-value, and for ks_2samp an
\* exception on an empty sample
TestInputs(idx_1, idx_2) ==
    LET k == Cardinality({data[i] : i \in idx_1 \cup idx_2})
        identical == \A v \in Values :
            Cardinality({i \in idx_1 : data[i] = v})
                = Cardinality({i \in idx_2 : data[i] = v})
        ps == IF identical THEN {NaN, 1000} ELSE PVals
        raises == IF feature_spec = "CONTINUOUS" /\ (idx_1 = {} \/ idx_2 = {})
                  THEN {TRUE, FALSE} ELSE {FALSE}
    IN {<<FeatureTest(feature_spec, k, p, r)>> : p \in ps, r \in raises}

\* lines 370-373: the generator of a child from the distribution test's answer
ChildGenerator(result, parent_generator, id, training_idx) ==
    IF result = "True" THEN parent_generator
    ELSE new_generator(id, training_idx)

\* ChildCoverage with the fraction upside down: the parent's rows over the
\* child's
ChildCoverage_Inverted(child_idx, constraint, parent) ==
    LET n_gen == Len(parent.gen_data)
        n_accepted == Cardinality({i \in 1..n_gen : Test(constraint, parent.gen_data[i])})
    IN FracMul(Frac(Cardinality(parent.training_idx) + n_gen,
                    Cardinality(child_idx) + n_accepted),
               parent.coverage)

\* lines 387-396: the child's coverage
ChildCoverage(child_idx, constraint, parent) ==
    LET n_gen == Len(parent.gen_data)
        n_accepted == Cardinality({i \in 1..n_gen : Test(constraint, parent.gen_data[i])})
    IN FracMul(Frac(Cardinality(child_idx) + n_accepted,
                    Cardinality(parent.training_idx) + n_gen),
               parent.coverage)

\* line 400: score = -(coverage * (1 - fidelity))
ChildScore(coverage, fidelity) ==
    FracNeg(FracMul(coverage, Frac(fidelity[2] - fidelity[1], fidelity[2])))

\* Impure without its "not": the pure children are the ones queued
Impure_Negated(training_idx, prediction) ==
    \A i \in training_idx : targets[i] = prediction

\* line 403: not all(targets[child.training_idx] == child.prediction)
Impure(training_idx, prediction) ==
    \E i \in training_idx : targets[i] # prediction

\* lines 376-400 for one successful outcome s of draw_sample
ChildFinish(c, s, constraint, test) ==
    LET g == [c EXCEPT !.gen_data = s.gen_data,
                       !.gen_targets = OracleOf(s.gen_data),
                       !.gen_called = s.gen_called,
                       !.oracle_calls = s.oracle_calls,
                       !.assigned = @ \cup {"gen_data"}]
        own == TargetsAt(c.training_idx) \o g.gen_targets
    IN IF own = <<>>
       THEN [child |-> g, err |-> "StatisticsError", test |-> test,
             batches |-> s.batches]
       ELSE LET prediction == mode(own)
                fidelity == MeanEq(targets \o g.gen_targets, prediction)
                coverage == ChildCoverage(c.training_idx, constraint, nodes[c.parent])
            IN [child |-> [g EXCEPT
                    !.prediction = prediction,
                    !.fidelity = fidelity,
                    !.coverage = coverage,
                    !.score = ChildScore(coverage, fidelity),
                    !.assigned = @ \cup {"prediction", "fidelity", "coverage", "score"}],
                err |-> "", test |-> test, batches |-> s.batches]

\* lines 370-379 for one answer of the distribution test
ChildAfterTest(c, id, constraint, test) ==
    IF test.result \notin {"True", "False"}
    THEN {[child |-> c, err |-> test.result, test |-> test, batches |-> <<>>]}
    ELSE LET g == [c EXCEPT
                     !.generator = ChildGenerator(test.result,
                         nodes[c.parent].generator, id, c.training_idx),
                     !.assigned = @ \cup {"generator"}]
         IN {IF s.err # ""
             THEN [child |-> [g EXCEPT !.gen_called = s.gen_called],
                   err |-> s.err, test |-> test, batches |-> s.batches]
             ELSE ChildFinish(g, s, constraint, test) :
                s \in draw_sample(feature_spec, data, g.constraints,
                                  min_sample - Cardinality(g.training_idx),
                                  g.generator, Values)}

\* the body of the for loop (lines 361-400) for one constraint: every way it
\* can end, with the child as far as it got
ChildOutcomes(p, id, constraint) ==
    LET c == ChildStart(p, constraint)
        a == DistTestArgs(c.training_idx, nodes[p])
    IN UNION {ChildAfterTest(c, id, constraint, same_distribution(t)) :
                 t \in TestInputs(a[1], a[2])}

\* the rows and labels construct_split is called with (lines 354-356)
NodeData(n) == Rows(n.training_idx) \o n.gen_data
NodeTargets(n) == TargetsAt(n.training_idx) \o n.gen_targets

\* the scores of the nodes made so far
Scores == [id \in 1..size |-> nodes[id].score]

\* line 350: the loop condition
LoopCondition == heap # <<>> /\ size < max_tree_size

\* lines 350-356: pop a node and construct its split
Pop ==
    /\ pc = "loop"
    /\ LoopCondition
    /\ LET r == heappop(heap, Scores)
           o == SplitOutcome(use_m_of_n, feature_spec, NodeData(nodes[r.item]),
                             NodeTargets(nodes[r.item]))
       IN /\ heap' = r.heap
          /\ node' = r.item
          /\ pending' = o.split
          /\ err' = o.err
          /\ pc' = IF o.err # "" THEN "error"
                   ELSE IF o.split = <<>> THEN "loop" ELSE "split"
    /\ UNCHANGED <<data, feature_spec, oracle, min_sample, max_tree_size,
                   use_m_of_n, nodes, last_test, oracle_log, pickVars, cmpVars,
                   drawVars, distVars, beamVars, estVars>>

\* lines 358-404: one pass of the for loop over the split's constraints
AddChild ==
    /\ pc = "split"
    /\ \E o \in ChildOutcomes(node, size + 1, Head(pending)) :
          /\ nodes' = Append(nodes, o.child)
          /\ err' = o.err
          /\ oracle_log' = oracle_log \o o.batches
          /\ last_test' =
                LET a == DistTestArgs(ChildStart(node, Head(pending)).training_idx,
                                      nodes[node])
                IN [child |-> size + 1, n_tests |-> o.test.n_tests,
                    min_p |-> o.test.min_p, result |-> o.test.result,
                    idx_1 |-> a[1], idx_2 |-> a[2]]
          /\ IF o.err # ""
             THEN /\ pc' = "error"
                  /\ UNCHANGED <<heap, pending>>
             ELSE /\ heap' = IF Impure(o.child.training_idx, o.child.prediction)
                             THEN heappush(heap, size + 1,
                                           Append(Scores, o.child.score))
                             ELSE heap
                  /\ pending' = Tail(pending)
                  /\ pc' = IF Tail(pending) = <<>> THEN "loop" ELSE "split"
    /\ UNCHANGED <<data, feature_spec, oracle, min_sample, max_tree_size,
                   use_m_of_n, node,
                   pickVars, cmpVars, drawVars, distVars, beamVars, estVars>>

\* line 406: return self
Return ==
    /\ pc = "loop"
    /\ ~LoopCondition
    /\ pc' = "done"
    /\ UNCHANGED <<data, feature_spec, oracle, min_sample, max_tree_size,
                   use_m_of_n, nodes,
                   heap, node, pending, err, last_test, oracle_log, pickVars,
                   cmpVars, drawVars, distVars, beamVars, estVars>>

Next == FitRoot \/ Pop \/ AddChild \/ Return

vars == <<fitVars, pickVars, cmpVars, drawVars, distVars, beamVars, estVars>>

Spec == Init /\ [][Next]_vars

SpecQueue == InitQueue /\ [][Next]_vars

\* ------------------------------------------------------- properties of fit
Children(p) == {id \in 1..size : nodes[id].parent = p}
Queued == {heap[i] : i \in 1..Len(heap)}
Has(id, field) == field \in nodes[id].assigned

\* a node all of whose real training labels equal its prediction
Pure(id) ==
    /\ Has(id, "prediction")
    /\ \A i \in nodes[id].training_idx : targets[i] = nodes[id].prediction

\* C1: the tree never holds more than max_tree_size nodes, in any state of
\* the growth loop and when fit returns.
C1_SizeWithinBudget == size <= max_tree_size

\* C2 as stated: no node, the root included, whose training labels all equal
\* its prediction is in the queue or has children.
C2_PureNeverExpanded ==
    \A id \in 1..size : Pure(id) => id \notin Queued /\ Children(id) = {}

\* C2 as the code has it: a pure node other than the root is never in the
\* queue, is never the popped node and never has children; the root is
\* queued as soon as it is built, pure or not.
C2_PureChildNeverExpanded ==
    /\ \A id \in 2..size :
          Pure(id) => id \notin Queued /\ id # node /\ Children(id) = {}
    /\ (pc = "loop" /\ size = 1 /\ node = 0) => heap = <<1>>

\* a pure child was left out of the queue by a fit that returned
C2_Witness ==
    /\ pc = "done"
    /\ \E id \in 2..size : Pure(id) /\ nodes[id].training_idx # {}

\* the constraints of p's children are mutually exclusive and exhaustive
WellFormedSplit(p) ==
    \A x \in Values :
       Cardinality({id \in Children(p) : Test(nodes[id].local_constraint, x)}) = 1

\* the for loop over p's split has run to its end
Expanded(p) == Children(p) # {} /\ ~(node = p /\ pc \in {"split", "error"})

\* C4: the children of an expanded node with a well-formed split have
\* pairwise disjoint training_idx whose union is the parent's training_idx.
C4_ChildrenPartitionParent ==
    \A p \in 1..size :
       (Expanded(p) /\ WellFormedSplit(p)) =>
          /\ \A a, b \in Children(p) :
                a # b => nodes[a].training_idx \cap nodes[b].training_idx = {}
          /\ UNION {nodes[c].training_idx : c \in Children(p)} = nodes[p].training_idx

\* an expanded node whose training rows went to two different children
C4_Witness ==
    \E p \in 1..size :
       /\ Expanded(p) /\ WellFormedSplit(p)
       /\ Cardinality({c \in Children(p) : nodes[c].training_idx # {}}) >= 2

\* C5: the root's coverage is 1 and every other node's coverage is at most
\* its parent's.
C5_CoverageNonIncreasing ==
    \A id \in 1..size :
       Has(id, "coverage") =>
          IF nodes[id].parent = 0 THEN FracEq(nodes[id].coverage, Frac(1, 1))
          ELSE FracLeq(nodes[id].coverage, nodes[nodes[id].parent].coverage)

\* a grandchild of the root with less coverage than its parent, which has
\* less than the root
C5_Witness ==
    \E id \in 1..size :
       /\ Has(id, "coverage")
       /\ nodes[id].parent > 1
       /\ FracLt(nodes[id].coverage, nodes[nodes[id].parent].coverage)
       /\ FracLt(nodes[nodes[id].parent].coverage, Frac(1, 1))

\* C6: the child made last shares its parent's generator exactly when the
\* distribution test did not find a difference (min_p >= alpha / n_tests),
\* and has a generator of its own exactly when it did.
C6_GeneratorFollowsTest ==
    (last_test.child # 0 /\ Has(last_test.child, "generator")) =>
       LET c == nodes[last_test.child]
           different == last_test.min_p * last_test.n_tests < DistTestAlpha
       IN (c.generator = nodes[c.parent].generator) <=> ~different

\* C10: a node with k training rows stores max(0, min_sample - k) synthetic
\* rows, and none, with no call of the generator or the oracle, when
\* min_sample - k <= 0.
C10_TopUpCount ==
    \A id \in 1..size :
       LET n == min_sample - Cardinality(nodes[id].training_idx)
       IN /\ Has(id, "gen_data") =>
                /\ Len(nodes[id].gen_data) = (IF n > 0 THEN n ELSE 0)
                /\ Len(nodes[id].gen_targets) = Len(nodes[id].gen_data)
          /\ (Has(id, "training_idx") /\ n <= 0) =>
                /\ nodes[id].gen_data = <<>>
                /\ ~nodes[id].gen_called
                /\ nodes[id].oracle_calls = 0

\* a fit that returned with one child that was topped up and one that was not
C10_Witness ==
    /\ pc = "done"
    /\ \E a, b \in 2..size :
          /\ Has(a, "gen_data") /\ Len(nodes[a].gen_data) > 0 /\ nodes[a].gen_called
          /\ Has(b, "gen_data") /\ nodes[b].training_idx # {}
          /\ Cardinality(nodes[b].training_idx) >= min_sample
          /\ nodes[b].gen_data = <<>>

\* the nodes whose synthetic sample was drawn and labelled, in creation order
ToppedUp ==
    SelectIdx([id \in 1..size |-> id],
              [id \in 1..size |-> Has(id, "gen_data")
                   /\ min_sample - Cardinality(nodes[id].training_idx) > 0], 1)

\* C12: the oracle is called once on the whole training matrix, and after
\* that exactly once for each node with a positive top-up count, on all of
\* the node's synthetic instances together; it is never called per instance.
C12_OracleCalledInBatches ==
    pc # "start" =>
       /\ Len(oracle_log) = 1 + Len(ToppedUp)
       /\ oracle_log[1] = Len(data)
       /\ \A k \in 1..Len(ToppedUp) :
             /\ oracle_log[k + 1] = Len(nodes[ToppedUp[k]].gen_data)
             /\ oracle_log[k + 1] =
                   min_sample - Cardinality(nodes[ToppedUp[k]].training_idx)
       /\ \A id \in 1..size :
             nodes[id].oracle_calls = (IF id \in {ToppedUp[k] : k \in 1..Len(ToppedUp)}
                                       THEN 1 ELSE 0)

\* a fit that returned after one oracle call on two synthetic instances of
\* one node, and at least three oracle calls in all
C12_Witness ==
    /\ pc = "done"
    /\ Len(oracle_log) >= 3
    /\ \E k \in 1..Len(ToppedUp) :
          /\ Len(nodes[ToppedUp[k]].gen_data) >= 2
          /\ oracle_log[k + 1] >= 2

\* the fidelity of node id over its own data: its training labels and the
\* labels of its synthetic instances
OwnFidelity(id) ==
    MeanEq(TargetsAt(nodes[id].training_idx) \o nodes[id].gen_targets,
           nodes[id].prediction)

\* C15: each child's fidelity is the fraction of labels equal to its
\* prediction over its own data only: the oracle labels of the rows in its
\* training_idx and the labels of its synthetic instances.
C15_FidelityOverOwnData ==
    \A id \in 2..size :
       Has(id, "fidelity") => FracEq(nodes[id].fidelity, OwnFidelity(id))

\* construct_split has just returned for the popped node: no child made yet
JustSplit ==
    /\ pc \in {"split", "loop"}
    /\ node # 0
    /\ Children(node) = {}

\* the arguments of that call and its candidates with their scores
SplitData == NodeData(nodes[node])
SplitTargets == NodeTargets(nodes[node])
SplitCandidates == make_split_candidates(feature_spec, SplitData, SplitTargets)
CandidateScore(k) == split_score(SplitCandidates[k], SplitData, SplitTargets)

\* pending is the first of the candidates with the highest score
FirstOfBest ==
    \E k \in 1..Len(SplitCandidates) :
       /\ pending = SplitCandidates[k]
       /\ \A j \in 1..Len(SplitCandidates) : CandidateScore(j) <= CandidateScore(k)
       /\ \A j \in 1..(k - 1) : CandidateScore(j) < CandidateScore(k)

\* C14: the node a loop iteration pops has the lowest score of all the nodes
\* queued at that moment; the root's score is 0 and every child's score is
\* -(coverage * (1 - fidelity)), set before the child is queued.
C14_PopsLowestScore ==
    /\ JustSplit =>
          \A other \in Queued : FracLeq(nodes[node].score, nodes[other].score)
    /\ \A id \in Queued \cup (IF node = 0 THEN {} ELSE {node}) :
          /\ Has(id, "score")
          /\ IF id = 1 THEN nodes[id].score = Frac(0, 1)
             ELSE FracEq(nodes[id].score,
                         FracNeg(FracMul(nodes[id].coverage,
                                 Frac(nodes[id].fidelity[2] - nodes[id].fidelity[1],
                                      nodes[id].fidelity[2]))))

\* of two queued children the one made second was popped first, its score
\* being strictly the lower
C14_Witness ==
    /\ JustSplit
    /\ \E other \in Queued :
          /\ other < node
          /\ FracLt(nodes[node].score, nodes[other].score)

\* C16 as stated: with a non-empty candidate list construct_split returns
\* the first of the candidates with the maximum score.
C16_ReturnsFirstOfBest ==
    (JustSplit /\ ~use_m_of_n /\ SplitCandidates # <<>>) => FirstOfBest

\* C16 as the code has it: it returns the first of the candidates with the
\* maximum score when that score is above 0, and the empty split when no
\* candidate scores above 0.
C16_ReturnsFirstOfBestAboveZero ==
    (JustSplit /\ ~use_m_of_n /\ SplitCandidates # <<>>) =>
       IF \E k \in 1..Len(SplitCandidates) : CandidateScore(k) > 0
       THEN FirstOfBest
       ELSE pending = <<>>

\* two candidates tie at the highest score, which is above 0, and the first
\* of them was returned
C16_Witness ==
    /\ JustSplit
    /\ ~use_m_of_n
    /\ Len(SplitCandidates) >= 2
    /\ CandidateScore(1) > 0
    /\ \A j \in 1..Len(SplitCandidates) : CandidateScore(j) <= CandidateScore(1)
    /\ CandidateScore(2) = CandidateScore(1)
    /\ pending = SplitCandidates[1]
    /\ pending # SplitCandidates[2]

RECURSIVE WeightedEntropy(_, _, _)
\* the sum over the split's constraints of the number of instances that
\* satisfy the constraint times the entropy of their labels
WeightedEntropy(split, rows, labels) ==
    IF split = <<>> THEN 0
    ELSE LET t == TargetsWhere(Head(split), rows, labels)
         IN Len(t) * entropy(t) + WeightedEntropy(Tail(split), rows, labels)

\* C17: split_score is the entropy of the node's labels minus the sum of the
\* children's label entropies weighted by the fraction of the node's
\* instances in each child (both sides multiplied by the instance count).
C17_ScoreIsWeightedGain ==
    JustSplit =>
       \A k \in 1..Len(SplitCandidates) :
          Len(SplitTargets) * CandidateScore(k) =
             Len(SplitTargets) * entropy(SplitTargets)
                - WeightedEntropy(SplitCandidates[k], SplitData, SplitTargets)

\* the nodes construct_split was called for
Popped == {p \in 1..size : p = node \/ Children(p) # {}}

\* the beam refinement of node p's split has a neighbour to consider
ConsidersNeighbour(p) ==
    LET cands == make_split_candidates(feature_spec, NodeData(nodes[p]),
                                       NodeTargets(nodes[p]))
        best == construct_split(feature_spec, NodeData(nodes[p]),
                                NodeTargets(nodes[p]))
    IN neighboring_tests(Seed(best, cands), cands) # <<>>

\* C20: with use_m_of_n, the first time the beam refinement considers a
\* neighbouring split NotImplementedError leaves fit: the node being split is
\* the last one popped and has no child, and no node whose refinement had a
\* neighbour to consider ever gets a child.
C20_UnimplementedGateRaises ==
    /\ use_m_of_n =>
          \A p \in Popped :
             ConsidersNeighbour(p) =>
                /\ p = node
                /\ pc = "error"
                /\ err = "NotImplementedError"
                /\ Children(p) = {}
                /\ pending = <<>>
    /\ err = "NotImplementedError" =>
          use_m_of_n /\ pc = "error" /\ ConsidersNeighbour(node)

\* the error left fit when the root, whose best split has a positive score
\* and a second candidate to add, was being split: the tree is the root alone
C20_Witness ==
    /\ use_m_of_n
    /\ pc = "error"
    /\ err = "NotImplementedError"
    /\ node = 1
    /\ size = 1
    /\ Len(SplitCandidates) >= 2
    /\ \E k \in 1..Len(SplitCandidates) : CandidateScore(k) > 0

RECURSIVE Depth(_)
\* the number of edges from the root to node id
Depth(id) == IF nodes[id].parent = 0 THEN 0 ELSE 1 + Depth(nodes[id].parent)

\* C11: in every state of fit the root's constraints is the empty sequence,
\* and every other node's constraints is its parent's constraints followed
\* by the node's own local_constraint, so that its length is the node's depth.
C11_ConstraintsArePath ==
    \A id \in 1..size :
       /\ Has(id, "constraints")
       /\ IF nodes[id].parent = 0 THEN nodes[id].constraints = <<>>
          ELSE /\ Has(id, "local_constraint")
               /\ nodes[id].constraints =
                     Append(nodes[nodes[id].parent].constraints,
                            nodes[id].local_constraint)
       /\ Len(nodes[id].constraints) = Depth(id)

\* a node two levels below the root, with a path of two constraints
C11_Witness ==
    \E id \in 1..size :
       /\ Depth(id) = 2
       /\ Len(nodes[id].constraints) = 2
       /\ nodes[id].constraints[2] = nodes[id].local_constraint
       /\ nodes[id].constraints[1] = nodes[nodes[id].parent].local_constraint

\* fit has not ended
Running == pc \in {"start", "loop", "split"}

\* the nodes the loop can still pop: the queued ones and those the tree can
\* still get, an iteration that starts below max_tree_size adding the two
\* constraints of a split at most
PopsLeft == Len(heap) + (max_tree_size + 2 - size)

\* a number every step of fit lowers: an iteration takes one of PopsLeft and
\* gives at most two pending constraints, a child takes one of those
Variant ==
    3 * PopsLeft + Len(pending)
        + (CASE pc = "start" -> 2 [] pc \in {"loop", "split"} -> 1 [] OTHER -> 0)

\* C21: the growth loop of fit terminates.  Variant is a natural number in
\* every state and every step of fit lowers it, so that the loop cannot pop
\* nodes forever, whatever the split construction yields; fit ends with an
\* error or returns, and it returns only with the queue empty or the tree at
\* its budget.
C21_FitLoopTerminates ==
    /\ [](Variant \in Nat)
    /\ [][Variant' < Variant /\ Running]_vars
    /\ [](pc = "done" => heap = <<>> \/ size >= max_tree_size)
    /\ [](pc = "error" <=> err # "")

\* fit returned below its budget with the queue empty, after the iteration
\* that popped the root got an empty split
C21_Witness ==
    /\ pc = "done"
    /\ heap = <<>>
    /\ size < max_tree_size
    /\ node = 1
    /\ Children(node) = {}

\* C22: in every state of fit, every synthetic instance in a node's gen_data
\* satisfies every constraint of the node's constraints, the path from the
\* root.
C22_GenDataInRegion ==
    \A id \in 1..size :
       \A i \in 1..Len(nodes[id].gen_data) :
          \A k \in 1..Len(nodes[id].constraints) :
             Test(nodes[id].constraints[k], nodes[id].gen_data[i])

\* a node two levels below the root holds a synthetic instance, drawn from a
\* generator that also gives values outside each of the node's two constraints
C22_Witness ==
    \E id \in 1..size :
       /\ Depth(id) = 2
       /\ Has(id, "gen_data")
       /\ nodes[id].gen_data # <<>>
       /\ \A k \in 1..2 :
             \E v \in Support(feature_spec, data, nodes[id].generator, Values) :
                ~Test(nodes[id].constraints[k], v)

\* a step of fit keeps every node of the tree as it is
KeepsNodes == size' >= size /\ SubSeq(nodes', 1, size) = nodes

\* a step of fit puts in the queue only a node it has just created
QueuesNewOnly == \A id \in Queued' \ Queued : id > size /\ id <= size'

\* a step of fit that takes nodes out of the queue takes one, the node the
\* iteration is about from then on
PopsOne == Queued' # Queued /\ Queued' \subseteq Queued =>
               /\ Queued \ Queued' = {node'}
               /\ Len(heap') = Len(heap) - 1

\* a step of fit gives children only to the node popped last, which is out
\* of the queue
ExpandsPopped ==
    \A id \in (size + 1)..size' :
       nodes'[id].parent = node /\ node' = node /\ node \notin Queued'

\* C24: every queued node is childless with its score set and is queued
\* once; a step of fit never removes or alters a node, queues only a node it
\* has just created (so that a popped node is never queued again and is
\* popped at most once), pops one node at a time, and adds children only to
\* the node popped last.
C24_NodeLifecycle ==
    /\ [](\A id \in Queued : Children(id) = {} /\ Has(id, "score"))
    /\ [](Len(heap) = Cardinality(Queued))
    /\ [](\A id \in 1..size : Children(id) # {} => id \notin Queued)
    /\ [][KeepsNodes /\ QueuesNewOnly /\ PopsOne /\ ExpandsPopped]_vars

\* a child of the root was popped and got children of its own while another
\* node waits in the queue
C24_Witness ==
    /\ node > 1
    /\ Children(node) # {}
    /\ node \notin Queued
    /\ heap # <<>>

\* the node whose generator a node uses was fit at the node itself
FreshAt(id) == nodes[id].generator.src = id

RECURSIVE NearestFit(_)
\* the nearest of node id and its ancestors at which a generator was fit
NearestFit(id) ==
    IF FreshAt(id) \/ nodes[id].parent = 0 THEN id
    ELSE NearestFit(nodes[id].parent)

\* C25: in every state of fit the generator of a node is the one fit at the
\* nearest of the node and its ancestors where a generator was fit, from that
\* node's training_idx; and the distribution test made for a child compared
\* the child's training_idx with the training_idx of its parent's generator.
C25_GeneratorFromNearestFit ==
    /\ \A id \in 1..size :
          Has(id, "generator") =>
             nodes[id].generator =
                Generator(NearestFit(id), nodes[NearestFit(id)].training_idx)
    /\ last_test.child # 0 =>
          LET c == nodes[last_test.child]
          IN /\ last_test.idx_1 = c.training_idx
             /\ last_test.idx_2 = nodes[c.parent].generator.training_idx
             /\ last_test.idx_2 = nodes[NearestFit(c.parent)].training_idx

\* the test was made for a child whose parent uses the root's generator and
\* has fewer training rows than the root
C25_Witness ==
    /\ last_test.child # 0
    /\ LET p == nodes[last_test.child].parent
       IN /\ p > 1
          /\ NearestFit(p) = 1
          /\ nodes[p].training_idx # nodes[1].training_idx
          /\ last_test.idx_2 = nodes[1].training_idx

\* no candidate split of node p scores above 0 on the rows construct_split
\* gets for it, the case of no candidate at all included
NoPositiveSplit(p) ==
    LET rows == NodeData(nodes[p])
        labels == NodeTargets(nodes[p])
        cands == make_split_candidates(feature_spec, rows, labels)
    IN \A k \in 1..Len(cands) : split_score(cands[k], rows, labels) <= 0

\* the node popped last is one none of whose candidates scores above 0
PoppedNoPositive == node # 0 /\ NoPositiveSplit(node)

\* C26: without m-of-n refinement, a node none of whose candidate splits
\* scores above 0 never has a child; the iteration that pops it gets the
\* empty split, leaves the tree size as it was and goes back to the loop
\* condition, and the node is out of the queue from then on.
C26_NoPositiveSplitKeepsLeaf ==
    /\ [](~use_m_of_n =>
             \A p \in 1..size : Children(p) # {} => ~NoPositiveSplit(p))
    /\ []((~use_m_of_n /\ PoppedNoPositive) =>
             /\ pending = <<>>
             /\ pc \in {"loop", "done"}
             /\ node \notin Queued)
    /\ [][(~use_m_of_n /\ Len(heap') < Len(heap) /\ NoPositiveSplit(node')) =>
             size' = size /\ pc' = "loop" /\ nodes' = nodes]_vars
    /\ [][\A p \in 1..size : p \notin Queued => p \notin Queued']_vars

\* a node had candidate splits, none of them above 0; it was popped, has no
\* child, and the loop went on to end with it a leaf
C26_Witness ==
    /\ ~use_m_of_n
    /\ pc = "done"
    /\ PoppedNoPositive
    /\ make_split_candidates(feature_spec, NodeData(nodes[node]),
                             NodeTargets(nodes[node])) # <<>>
    /\ Children(node) = {}
    /\ node \notin Queued

\* the constraints the single operations are tried on
ConstraintSet ==
    {Constraint(k, v) : k \in {"GT", "LEQ", "EQ", "NEQ"}, v \in 0..(2 * MaxVal)}

FitIdle ==
    /\ data = <<>> /\ feature_spec = "" /\ oracle = <<>>
    /\ min_sample = 0 /\ max_tree_size = 0 /\ use_m_of_n = FALSE
    /\ nodes = <<>> /\ heap = <<>> /\ pc = "idle" /\ node = 0 /\ pending = <<>>
    /\ err = ""
    /\ last_test = [child |-> 0, n_tests |-> 0, min_p |-> 1000, result |-> "",
                    idx_1 |-> {}, idx_2 |-> {}]
    /\ oracle_log = <<>>

\* ------------------------------------------------- TrepanNode.pick_branch
RECURSIVE PickLoop(_, _, _)
\* the for loop of pick_branch from child i (counted from 1): the index of
\* the first child whose local_constraint passes, 0 if the loop runs out
PickLoop(children, data_vector, i) ==
    IF i > Len(children) THEN 0
    ELSE IF Test(children[i], data_vector) THEN i
    ELSE PickLoop(children, data_vector, i + 1)

PickInit ==
    /\ pick_children \in UNION {[1..n -> ConstraintSet] : n \in 1..MaxChildren}
    /\ pick_vector \in Val
    /\ pick_result = "" /\ pick_index = 0 - 1 /\ pick_logged = <<>>
    /\ FitIdle /\ CmpIdle /\ DrawIdle /\ DistIdle /\ BeamIdle /\ EstIdle

\* lines 88-91: the error record, which names the vector and the node
PickErrorRecord(data_vector) ==
    [level |-> "error", data_vector |-> data_vector, node |-> "self"]

\* PickOutcome that falls off the end of the method when no child matches:
\* None is returned, nothing is logged or raised
PickOutcome_Silent(i, data_vector) ==
    [result |-> "returned", index |-> i - 1, logged |-> <<>>]

\* lines 86-92: return i inside the loop, or log and raise after it; i is
\* the loop's result counted from 1, 0 when it ran out
PickOutcome(i, data_vector) ==
    IF i > 0 THEN [result |-> "returned", index |-> i - 1, logged |-> <<>>]
    ELSE [result |-> "ValueError", index |-> 0 - 1,
          logged |-> <<PickErrorRecord(data_vector)>>]

\* TrepanNode.pick_branch(data_vector); indices are Python's, from 0
PickBranch ==
    /\ pick_result = ""
    /\ LET o == PickOutcome(PickLoop(pick_children, pick_vector, 1), pick_vector)
       IN /\ pick_result' = o.result
          /\ pick_index' = o.index
          /\ pick_logged' = o.logged
    /\ UNCHANGED <<pick_children, pick_vector, fitVars, cmpVars, drawVars, distVars,
                   beamVars, estVars>>

SpecPick == PickInit /\ [][PickBranch]_vars

\* the children whose local_constraint the vector satisfies
PickMatches ==
    {i \in 1..Len(pick_children) : Test(pick_children[i], pick_vector)}

\* C3: pick_branch raises when more than one child's constraint is
\* satisfied; it returns no index then.
C3_AmbiguousVectorRaises ==
    (pick_result # "" /\ Cardinality(PickMatches) > 1) =>
       pick_result = "ValueError" /\ pick_index = 0 - 1

\* C13: pick_branch on a vector that satisfies no child's local_constraint
\* logs one error that names the vector and the node, raises ValueError and
\* returns no branch index.
C13_NoMatchLogsAndRaises ==
    (pick_result # "" /\ PickMatches = {}) =>
       /\ pick_result = "ValueError"
       /\ pick_index = 0 - 1
       /\ pick_logged = <<PickErrorRecord(pick_vector)>>

\* the call raised on a node with two children, neither of which matches
C13_Witness ==
    /\ pick_result = "ValueError"
    /\ Len(pick_children) >= 2
    /\ PickMatches = {}
    /\ Len(pick_logged) = 1

\* ------------------------------------------------ TrepanNode comparisons
\* score = None
NoneScore == <<0, 0>>
IsNone(score) == score[2] = 0

\* the scores compared: None, and values with equal and unequal fractions
ScoreSet == {NoneScore, Frac(0, 1), Frac(0 - 1, 2), Frac(0 - 2, 4), Frac(0 - 1, 1)}

Bool(b) == IF b THEN "True" ELSE "False"

\* TrepanNode.__eq__
Node_eq(self, other) ==
    IF IsNone(self) \/ IsNone(other) THEN "False"
    ELSE Bool(FracEq(self, other))

\* __lt__ answering False, as __eq__ does, when a score is None
Node_lt_NoRaise(self, other) ==
    IF IsNone(self) \/ IsNone(other) THEN "False"
    ELSE Bool(FracLt(self, other))

\* TrepanNode.__lt__
Node_lt(self, other) ==
    IF IsNone(self) \/ IsNone(other) THEN "ValueError"
    ELSE Bool(FracLt(self, other))

\* the operators functools.total_ordering derives from __lt__ and __eq__:
\* each calls __lt__ first, so what __lt__ raises they raise
Node_le(self, other) ==
    LET r == Node_lt(self, other)
    IN IF r = "ValueError" THEN r
       ELSE Bool(r = "True" \/ Node_eq(self, other) = "True")

Node_gt(self, other) ==
    LET r == Node_lt(self, other)
    IN IF r = "ValueError" THEN r
       ELSE Bool(r # "True" /\ Node_eq(self, other) # "True")

Node_ge(self, other) ==
    LET r == Node_lt(self, other)
    IN IF r = "ValueError" THEN r ELSE Bool(r # "True")

CompareNodes(op, self, other) ==
    CASE op = "==" -> Node_eq(self, other)
      [] op = "<" -> Node_lt(self, other)
      [] op = "<=" -> Node_le(self, other)
      [] op = ">" -> Node_gt(self, other)
      [] op = ">=" -> Node_ge(self, other)

CmpInit ==
    /\ cmp_self \in ScoreSet
    /\ cmp_other \in ScoreSet
    /\ cmp_op \in {"==", "<", "<=", ">", ">="}
    /\ cmp_result = ""
    /\ FitIdle /\ PickIdle /\ DrawIdle /\ DistIdle /\ BeamIdle /\ EstIdle

\* self <op> other
Compare ==
    /\ cmp_result = ""
    /\ cmp_result' = CompareNodes(cmp_op, cmp_self, cmp_other)
    /\ UNCHANGED <<cmp_self, cmp_other, cmp_op, fitVars, pickVars, drawVars, distVars,
                   beamVars, estVars>>

SpecCmp == CmpInit /\ [][Compare]_vars

CmpWithNone == cmp_result # "" /\ (IsNone(cmp_self) \/ IsNone(cmp_other))

\* C8 as stated: every comparison, == included, of nodes of which one has
\* score None raises.
C8_EveryComparisonWithNoneRaises ==
    CmpWithNone => cmp_result = "ValueError"

\* C8 as the code has it: <, <=, > and >= raise ValueError when a score is
\* None, and == returns False.
C8_OrderingWithNoneRaises ==
    CmpWithNone =>
       IF cmp_op = "==" THEN cmp_result = "False" ELSE cmp_result = "ValueError"

\* a derived ordering, >=, raised on a scored node compared with an unscored
C8_Witness ==
    /\ cmp_op = ">=" /\ ~IsNone(cmp_self) /\ IsNone(cmp_other)
    /\ cmp_result = "ValueError"

\* --------------------------------------------------- Trepan.draw_instance
\* the loop bound off by one: range(max_attempts + 1)
DrawLoopCondition_OneMore(attempts, max_attempts) == attempts <= max_attempts

\* line 427, for _ in range(max_attempts): another attempt is made
DrawLoopCondition(attempts, max_attempts) == attempts < max_attempts

DrawInit ==
    /\ draw_constraints \in UNION {[1..n -> ConstraintSet] : n \in 0..MaxPath}
    /\ draw_max_attempts \in 0..MaxAttempts
    /\ draw_generated = <<>>
    /\ draw_result = ""
    /\ FitIdle /\ PickIdle /\ CmpIdle /\ DistIdle /\ BeamIdle /\ EstIdle

\* lines 428-431: one pass of the loop; generate() may return any instance
DrawAttempt ==
    /\ draw_result = ""
    /\ DrawLoopCondition(Len(draw_generated), draw_max_attempts)
    /\ \E instance \in Val :
          /\ draw_generated' = Append(draw_generated, instance)
          /\ draw_result' = IF TestAll(draw_constraints, instance)
                            THEN "returned" ELSE ""
    /\ UNCHANGED <<draw_constraints, draw_max_attempts, fitVars, pickVars,
                   cmpVars, distVars, beamVars, estVars>>

\* line 433: the loop ran out
DrawExhausted ==
    /\ draw_result = ""
    /\ ~DrawLoopCondition(Len(draw_generated), draw_max_attempts)
    /\ draw_result' = "RuntimeError"
    /\ UNCHANGED <<draw_constraints, draw_max_attempts, draw_generated, fitVars,
                   pickVars, cmpVars, distVars, beamVars, estVars>>

DrawNext == DrawAttempt \/ DrawExhausted

SpecDraw == DrawInit /\ [][DrawNext]_vars

DrawAccepts(i) == TestAll(draw_constraints, draw_generated[i])

\* C9: draw_instance never calls generate() more than max_attempts times;
\* it raises RuntimeError only after exactly max_attempts calls that were all
\* rejected, and it returns the instance of the first call that satisfies
\* every constraint, right after that call.
C9_ExactlyMaxAttempts ==
    LET n == Len(draw_generated)
    IN /\ n <= draw_max_attempts
       /\ \A i \in 1..(n - 1) : ~DrawAccepts(i)
       /\ draw_result = "returned" => n >= 1 /\ DrawAccepts(n)
       /\ draw_result = "RuntimeError" =>
             n = draw_max_attempts /\ \A i \in 1..n : ~DrawAccepts(i)
       /\ draw_result = "" => \A i \in 1..n : ~DrawAccepts(i)

\* constraints no instance satisfies: RuntimeError after all of at least two
\* attempts
C9_Witness ==
    /\ draw_result = "RuntimeError"
    /\ draw_max_attempts >= 2
    /\ Len(draw_generated) = draw_max_attempts
    /\ \A x \in Val : ~TestAll(draw_constraints, x)

\* ------------------------------------------ Trepan.construct_m_of_n_split
\* The gate tests_sig_diff is one that a subclass supplies: any function
\* that returns a boolean.  Where the code orders (score, split) pairs of
\* equal score by their splits (min, max), any of them may come first.
BeamEntry(score, split) == [score |-> score, split |-> split]

\* the entries min(beam) and max(beam) can be
BeamMin(b) == {e \in {b[i] : i \in 1..Len(b)} :
                 \A i \in 1..Len(b) : e.score <= b[i].score}
BeamMax(b) == {e \in {b[i] : i \in 1..Len(b)} :
                 \A i \in 1..Len(b) : e.score >= b[i].score}

\* beam.index(worst), counted from 1
BeamIndex(b, e) == CHOOSE i \in 1..Len(b) : b[i] = e /\ \A j \in 1..(i - 1) : b[j] # e

\* BeamHasRoom off by one: a full beam still takes one more entry
BeamHasRoom_OneMore(len, width) == len <= width

\* line 283: len(beam) < self.beam_width
BeamHasRoom(len, width) == len < width

\* Beats that lets an equal score in
Beats_OrEqual(new_score, worst_score) == new_score >= worst_score

\* line 290: new_score > worst[0]
Beats(new_score, worst_score) == new_score > worst_score

BeamInit ==
    /\ beam_spec \in {"CONTINUOUS", "DISCRETE"}
    /\ beam_rows \in UNION {[1..n -> 0..MaxBeamVal] : n \in 1..MaxBeamRows}
    /\ \A i \in 1..(Len(beam_rows) - 1) : beam_rows[i] <= beam_rows[i + 1]
    /\ \E f \in [0..MaxBeamVal -> Label] :
          beam_labels = [i \in 1..Len(beam_rows) |-> f[beam_rows[i]]]
    /\ beam_width \in 0..MaxBeamWidth
    /\ beam_candidates = make_split_candidates(beam_spec, beam_rows, beam_labels)
    /\ LET best_split == construct_split(beam_spec, beam_rows, beam_labels)
           best_split_score ==
               IF best_split = <<>> THEN 0
               ELSE split_score(best_split, beam_rows, beam_labels)
       IN beam = <<BeamEntry(best_split_score,
                             Seed(best_split, beam_candidates))>>
    /\ beam_changed = TRUE
    /\ beam_pos = 0
    /\ beam_nbrs = <<>>
    /\ beam_pc = "while"
    /\ beam_result = <<>>
    /\ beam_start = beam
    /\ beam_replaced = FALSE
    /\ FitIdle /\ PickIdle /\ CmpIdle /\ DrawIdle /\ DistIdle /\ EstIdle

\* lines 275-276 and the start of the for loop: another pass begins
BeamWhile ==
    /\ beam_pc = "while"
    /\ beam_changed
    /\ beam_changed' = FALSE
    /\ beam_pos' = 1
    /\ beam_start' = beam
    /\ beam_pc' = "for"
    /\ UNCHANGED <<beam_spec, beam_rows, beam_labels, beam_width,
                   beam_candidates, beam, beam_nbrs,
                   beam_result, beam_replaced, fitVars, pickVars, cmpVars,
                   drawVars, distVars, estVars>>

\* line 278: the iterator over the list beam gives its next entry, or ends
BeamForSplit ==
    /\ beam_pc = "for"
    /\ IF beam_pos <= Len(beam)
       THEN /\ beam_nbrs' = neighboring_tests(beam[beam_pos].split, beam_candidates)
            /\ beam_pos' = beam_pos + 1
            /\ beam_pc' = "inner"
       ELSE /\ beam_pc' = "while"
            /\ UNCHANGED <<beam_nbrs, beam_pos>>
    /\ UNCHANGED <<beam_spec, beam_rows, beam_labels, beam_width,
                   beam_candidates, beam,
                   beam_changed, beam_result, beam_start, beam_replaced, fitVars,
                   pickVars, cmpVars, drawVars, distVars, estVars>>

\* lines 279-292: the next neighbour of the current split, for either answer
\* of the gate
BeamNeighbour ==
    /\ beam_pc = "inner"
    /\ IF beam_nbrs = <<>>
       THEN /\ beam_pc' = "for"
            /\ UNCHANGED <<beam, beam_changed, beam_nbrs, beam_replaced>>
       ELSE /\ beam_nbrs' = Tail(beam_nbrs)
            /\ beam_pc' = "inner"
            /\ \E sig_diff \in BOOLEAN :
                  LET new_split == Head(beam_nbrs)
                      new_score == MofNScore(new_split, beam_candidates,
                                             beam_rows, beam_labels)
                  IN IF ~sig_diff
                     THEN UNCHANGED <<beam, beam_changed, beam_replaced>>
                     ELSE IF BeamHasRoom(Len(beam), beam_width)
                     THEN /\ beam' = Append(beam, BeamEntry(new_score, new_split))
                          /\ beam_changed' = TRUE
                          /\ UNCHANGED beam_replaced
                     ELSE \E worst \in BeamMin(beam) :
                            IF Beats(new_score, worst.score)
                            THEN /\ beam' = [beam EXCEPT ![BeamIndex(beam, worst)] =
                                                BeamEntry(new_score, new_split)]
                                 /\ beam_changed' = TRUE
                                 /\ beam_replaced' = TRUE
                            ELSE UNCHANGED <<beam, beam_changed, beam_replaced>>
    /\ UNCHANGED <<beam_spec, beam_rows, beam_labels, beam_width,
                   beam_candidates, beam_pos,
                   beam_result, beam_start, fitVars, pickVars, cmpVars, drawVars,
                   distVars, estVars>>

\* line 296: return max(beam)[1]
BeamReturn ==
    /\ beam_pc = "while"
    /\ ~beam_changed
    /\ \E best \in BeamMax(beam) : beam_result' = <<best.split>>
    /\ beam_pc' = "returned"
    /\ UNCHANGED <<beam_spec, beam_rows, beam_labels, beam_width,
                   beam_candidates, beam,
                   beam_changed, beam_pos, beam_nbrs, beam_start, beam_replaced,
                   fitVars, pickVars, cmpVars, drawVars, distVars, estVars>>

BeamNext == BeamWhile \/ BeamForSplit \/ BeamNeighbour \/ BeamReturn

SpecBeam == BeamInit /\ [][BeamNext]_vars

\* the statements of the method run one after another until it returns
SpecBeamFair == SpecBeam /\ WF_vars(BeamNext)

BeamScores(b) == {b[i].score : i \in 1..Len(b)}

\* the step appends one entry to a beam that held fewer than beam_width
BeamAppended ==
    /\ Len(beam) < beam_width
    /\ Len(beam') = Len(beam) + 1
    /\ SubSeq(beam', 1, Len(beam)) = beam

\* the step replaces one entry, which had the lowest score of a full beam,
\* by an entry of strictly higher score
BeamReplaced ==
    /\ Len(beam) >= beam_width
    /\ Len(beam') = Len(beam)
    /\ \E i \in 1..Len(beam) :
          /\ \A j \in 1..Len(beam) : j # i => beam'[j] = beam[j]
          /\ \A s \in BeamScores(beam) : beam[i].score <= s
          /\ beam'[i].score > beam[i].score

\* C18: with beam_width >= 1 the beam holds between 1 and beam_width entries
\* in every state of construct_m_of_n_split, and it changes only by an
\* append while it holds fewer than beam_width entries or, when it is full,
\* by the replacement of a lowest-scoring entry with a strictly higher score.
C18_BeamBounded ==
    /\ [](beam_width >= 1 => Len(beam) >= 1 /\ Len(beam) <= beam_width)
    /\ [][(beam_width >= 1 /\ beam' # beam) => (BeamAppended \/ BeamReplaced)]_vars

\* the method returned after it filled a beam of two or more entries and
\* replaced one of them
C18_Witness ==
    /\ beam_pc = "returned"
    /\ beam_width >= 2
    /\ Len(beam) = beam_width
    /\ beam_replaced

\* C19: construct_m_of_n_split returns, whatever the gate answers; when it
\* does, the pass of the while loop just completed left the beam as it found
\* it, and the split returned has the highest score in the beam.
C19_BeamSearchTerminates ==
    /\ <>(beam_pc = "returned")
    /\ [](beam_pc = "returned" =>
             /\ ~beam_changed
             /\ beam = beam_start
             /\ beam_pos = Len(beam) + 1
             /\ \E e \in BeamMax(beam) : beam_result = <<e.split>>)

\* the method returned after a pass that changed the beam and a later one
\* that did not, with a split that is not the seed
C19_Witness ==
    /\ beam_pc = "returned"
    /\ Len(beam) >= 2
    /\ beam_replaced
    /\ beam_result # <<beam[1].split>>

\* --------------------------------------------- Trepan.same_distribution
FeatureTestSet ==
    {FeatureTest(spec, k, p, r) :
        spec \in {"CONTINUOUS", "DISCRETE"}, k \in 1..2, p \in PVals, r \in BOOLEAN}

DistInit ==
    /\ dist_tests \in UNION {[1..d -> FeatureTestSet] : d \in 1..MaxFeatures}
    /\ dist_result = [n_tests |-> 0, min_p |-> 1000, result |-> ""]
    /\ FitIdle /\ PickIdle /\ CmpIdle /\ DrawIdle /\ BeamIdle /\ EstIdle

\* self.same_distribution(idx_1, idx_2)
CallSameDistribution ==
    /\ dist_result.result = ""
    /\ dist_result' = same_distribution(dist_tests)
    /\ UNCHANGED <<dist_tests, fitVars, pickVars, cmpVars, drawVars, beamVars,
                   estVars>>

SpecDist == DistInit /\ [][CallSameDistribution]_vars

\* no feature yields a test: each is discrete with one distinct value
NoValidTest ==
    \A i \in 1..Len(dist_tests) :
       dist_tests[i].spec = "DISCRETE" /\ dist_tests[i].k <= 1

\* C7: when no feature yields a valid test, same_distribution returns its
\* answer and raises nothing.
C7_NoTestReturnsSame ==
    (dist_result.result # "" /\ NoValidTest) =>
       dist_result.result \in {"True", "False"}

\* ------------------------------------------------------ predict.estimate
\* A built tree is a leaf, whose model gives each row an estimate of its own,
\* or an internal node with a split and one subtree per branch.  The splits
\* are the ones construct_split builds: a threshold pair or a one-vs-all pair.
Leaf(path) == [is_leaf |-> TRUE, path |-> path]
Internal(split, children) ==
    [is_leaf |-> FALSE, split |-> split, children |-> children]

EstSplits ==
    {<<Constraint("LEQ", 2 * v + 1), Constraint("GT", 2 * v + 1)>> :
        v \in 0..(MaxEstVal - 1)}
    \cup {<<Constraint("EQ", 2 * v), Constraint("NEQ", 2 * v)>> :
             v \in 0..MaxEstVal}

RECURSIVE Trees(_, _)
\* the trees of k leaves below the branches of path
Trees(k, path) ==
    IF k = 1 THEN {Leaf(path)}
    ELSE UNION {{Internal(split, <<l, r>>) :
                    split \in EstSplits,
                    l \in Trees(j, Append(path, 0)),
                    r \in Trees(k - j, Append(path, 1))} : j \in 1..(k - 1)}

\* node.item.model.estimate on one row: the model of each leaf answers
\* differently from every other leaf's
LeafEstimate(leaf, x) == [leaf |-> leaf.path, x |-> x]

\* node.item.split.pick_branches(data_matrix[idx, :]): for each row the
\* branch whose constraint the row satisfies
pick_branches(split, rows) ==
    [i \in 1..Len(rows) |->
        (CHOOSE b \in 1..Len(split) : Test(split[b], rows[i])) - 1]

\* BranchIdx that hands every branch all the rows
BranchIdx_Unfiltered(idx, branches, b) == idx

\* line 44: idx[branches == b]
BranchIdx(idx, branches, b) ==
    SelectIdx(idx, [i \in 1..Len(idx) |-> branches[i] = b], 1)

\* np.empty((n, target_dimension)): rows of arbitrary content, none written
Unwritten == [value |-> "empty", writes |-> 0]

\* estimate, lines 49-59, up to the call of _estimate_subtree on the root
EstInit ==
    /\ est_tree \in UNION {Trees(k, <<>>) : k \in 1..MaxLeaves}
    /\ data_matrix \in UNION {[1..n -> 0..MaxEstVal] : n \in 0..MaxEstRows}
    /\ est_stack = <<[node |-> est_tree,
                      idx |-> [i \in 1..Len(data_matrix) |-> i]]>>
    /\ result_matrix = [i \in 1..Len(data_matrix) |-> Unwritten]
    /\ est_pc = "running"
    /\ FitIdle /\ PickIdle /\ CmpIdle /\ DrawIdle /\ DistIdle /\ BeamIdle

\* lines 38-39: a call on a leaf writes the rows of idx
EstimateLeaf ==
    /\ est_pc = "running"
    /\ est_stack # <<>>
    /\ LET call == Head(est_stack)
       IN /\ call.node.is_leaf
          /\ result_matrix' =
                [i \in 1..Len(data_matrix) |->
                    LET n == CountEq(call.idx, i)
                    IN IF n = 0 THEN result_matrix[i]
                       ELSE [value |-> LeafEstimate(call.node, data_matrix[i]),
                             writes |-> result_matrix[i].writes + 1]]
    /\ est_stack' = Tail(est_stack)
    /\ UNCHANGED <<est_tree, data_matrix, est_pc, fitVars, pickVars, cmpVars,
                   drawVars, distVars, beamVars>>

\* lines 41-44: a call on an internal node makes one call per branch taken,
\* in the order of np.unique
EstimateSplit ==
    /\ est_pc = "running"
    /\ est_stack # <<>>
    /\ LET call == Head(est_stack)
       IN /\ ~call.node.is_leaf
          /\ LET rows == [i \in 1..Len(call.idx) |-> data_matrix[call.idx[i]]]
                 branches == pick_branches(call.node.split, rows)
                 unique == SetToSeq({branches[i] : i \in 1..Len(branches)})
                 calls == [k \in 1..Len(unique) |->
                             [node |-> call.node.children[unique[k] + 1],
                              idx |-> BranchIdx(call.idx, branches, unique[k])]]
             IN est_stack' = calls \o Tail(est_stack)
    /\ UNCHANGED <<est_tree, data_matrix, result_matrix, est_pc, fitVars,
                   pickVars, cmpVars, drawVars, distVars, beamVars>>

\* line 46 of the call on the root: return result_matrix
EstimateReturn ==
    /\ est_pc = "running"
    /\ est_stack = <<>>
    /\ est_pc' = "returned"
    /\ UNCHANGED <<est_tree, data_matrix, est_stack, result_matrix, fitVars,
                   pickVars, cmpVars, drawVars, distVars, beamVars>>

EstNext == EstimateLeaf \/ EstimateSplit \/ EstimateReturn

SpecEstimate == EstInit /\ [][EstNext]_vars

RECURSIVE Routed(_, _)
\* the leaves of node that x can be routed to, branch by branch
Routed(n, x) ==
    IF n.is_leaf THEN {n}
    ELSE UNION {Routed(n.children[b], x) :
                   b \in {c \in 1..Len(n.split) : Test(n.split[c], x)}}

\* C23: when estimate returns, every row of the result has been written
\* exactly once, each instance is routed to exactly one leaf, and its row
\* holds that leaf's estimate; while estimate runs no row is written twice.
C23_EachRowWrittenOnce ==
    /\ \A i \in 1..Len(data_matrix) : result_matrix[i].writes <= 1
    /\ est_pc = "returned" =>
          \A i \in 1..Len(data_matrix) :
             /\ result_matrix[i].writes = 1
             /\ Cardinality(Routed(est_tree, data_matrix[i])) = 1
             /\ \A leaf \in Routed(est_tree, data_matrix[i]) :
                   result_matrix[i].value = LeafEstimate(leaf, data_matrix[i])

\* estimate returned on a tree of three leaves after two rows went two
\* different ways at the root
C23_Witness ==
    /\ est_pc = "returned"
    /\ Len(data_matrix) = 2
    /\ ~est_tree.is_leaf
    /\ \E b \in 1..2 : ~est_tree.children[b].is_leaf
    /\ result_matrix[1].value.leaf[1] # result_matrix[2].value.leaf[1]

====
